---- MODULE Spec2Model ----
(***************************************************************************)
(* The workflow executor of the CUA engine                                 *)
(* (services/cua_engine/workflow_executor.py).                             *)
(*                                                                         *)
(* A run of execute_workflow is a coroutine.  It gives up control only at  *)
(* its awaits that really suspend: the action call (_mock_step_execution   *)
(* sleeps) and the back-off sleep between two attempts.  Everything        *)
(* between two such awaits is one atomic step of the model, so one action  *)
(* of the model carries the run from one suspension to the next.           *)
(*                                                                         *)
(* Python dicts and objects read with .get / getattr are functions whose   *)
(* domain is the set of keys that are present.  Step indexes are 0-based   *)
(* as in enumerate(); the default id "step_<i>" of a step is the number i. *)
(***************************************************************************)
EXTENDS Integers, Sequences, FiniteSets, TLC

\* ---------------------------------------------------------------- bounds
MaxSteps == 5
MaxFewSteps == 2
MaxRetriesFew == 2
MaxDelay == 2
MaxMultiplier == 3
MaxOpsSteps == 2
MaxWait == 2
MaxQueries == 2
MaxMessages == 3
MaxRaises == 2
MaxActions == 2
MaxShown == 7

\* ------------------------------------------------------ program constants
DefaultMaxRetries == 3
DefaultRetryDelay == 1
BackoffFactor == 2
ThresholdNum == 8
ThresholdDen == 10
\* The clock counts tenths of a second: the mock action sleeps 0.1 s.
TicksPerSecond == 10
max_concurrent_notifications == 5
DefaultDuration == 5000

\* The calls of execute_workflow the service's endpoint makes; each is a run.
Runs == {1, 2}

VARIABLES
    is_initialized,     \* WorkflowExecutor.is_initialized
    active_workflows,   \* WorkflowExecutor.active_workflows: workflow_id -> run owning the context
    workflow_results,   \* WorkflowExecutor.workflow_results: workflow_id -> workflow_result
    workflow,           \* per run: the argument of execute_workflow
    pc,                 \* per run: where the coroutine stands
    step_i,             \* per run: i of "for i, step in enumerate(workflow.actions)"
    results,            \* per run: the local list results
    attempt,            \* per run: attempt of "for attempt in range(max_retries + 1)"
    retry_delay,        \* per run: the local retry_delay of _execute_step_with_retry
    total_retries,      \* per run: execution_context.total_retries
    returned,           \* per run: the value execute_workflow returned, or the
                        \* exception it raised (<<>> before)
    log,                \* per run: history of action invocations and back-off sleeps
    now,                \* time.time(): it advances while a coroutine is suspended
    start_time,         \* per run: execution_context.start_time
    cancelled,          \* per run: <<>>, or the lengths of log and results when
                        \* cancel_workflow removed the run's context
    status_reply,       \* the last get_workflow_status call, if nothing ran since:
                        \* [asked, value], and nth: how many calls in a row
                        \* have asked for that id
    \* MessageBus (libs/archi_core/archi_core/messaging.py), one durable queue
    bus_queue,          \* the broker's queue: messages ready for delivery
    bus_unacked,        \* messages delivered to the consumer and not acknowledged
    consumer,           \* the thread in MessageBus.consume: "none", "waiting" (in
                        \* start_consuming), "handling" (in _callback), "stopped"
    bus_log,            \* history of publish, handler and ack events
    \* execution agent (services/execution_agent/main.py)
    execution_registry, \* execution_registry: task_id -> ExecutionResult
    task_pc,            \* per task: where the thread in execute_task stands
    task_left,          \* per task: actions the loop of execute_task has still to run
    stopped,            \* task ids emergency_stop has marked CANCELLED
    \* NotificationSystem (services/hud_overlay/notification_system.py)
    active_notifications,   \* the dict, in insertion order: a sequence of items
    notification_queue,     \* the list notification_queue
    is_running,             \* NotificationSystem.is_running
    dismiss_tasks,          \* items whose _auto_dismiss_notification task sleeps
    shown,                  \* number of show_notification calls made
    displays,               \* time.time() of the HUD: it advances at every display
    dequeued                \* the item taken last from notification_queue (its
                            \* seq; 0: none yet)

busVars == <<bus_queue, bus_unacked, consumer, bus_log>>

agentVars == <<execution_registry, task_pc, task_left, stopped>>

hudVars == <<active_notifications, notification_queue, is_running, dismiss_tasks,
             shown, displays, dequeued>>

executorVars == <<is_initialized, active_workflows, workflow_results, workflow, pc,
                  step_i, results, attempt, retry_delay, total_retries, returned,
                  log, now, start_time, cancelled, status_reply>>

\* the variables of the components other than the one an action belongs to
outsideExecutor == <<busVars, agentVars, hudVars>>
outsideBus == <<executorVars, agentVars, hudVars>>
outsideAgent == <<executorVars, busVars, hudVars>>
outsideHud == <<executorVars, busVars, agentVars>>

vars == <<executorVars, busVars, agentVars, hudVars>>

\* ------------------------------------------------------------ dictionaries
EmptyDict == [k \in {} |-> 0]

\* dict.get(k, default) and getattr(obj, k, default)
Get(d, k, default) == IF k \in DOMAIN d THEN d[k] ELSE default

Put(d, k, v) == (k :> v) @@ d

\* a del that leaves the key in place
NoDel(d, k) == d

\* a del that empties the dict
DelAll(d, k) == EmptyDict

\* del d[k]
Del(d, k) == [x \in DOMAIN d \ {k} |-> d[x]]

\* ------------------------------------------------------------------ inputs
NoDeps == {}

\* A step object.  dep is an offset to the id the step depends on (0: none).
MkStep(i, crit, dep, policy) ==
    [action_type  |-> "click",
     parameters   |-> IF crit THEN EmptyDict ELSE [critical |-> FALSE],
     dependencies |-> IF dep = 0 THEN NoDeps ELSE {i + dep},
     retry_policy |-> policy]

Workflow(acts) == [id |-> "w1", name |-> "wf", actions |-> acts]

\* A step depends on nothing, on the step before it or on the step after it;
\* the first step's "step before" and the last step's "step after" are ids of
\* no step.  Each step is critical or not.
StepShapes == BOOLEAN \X {-1, 0, 1}

\* The workflow of n steps shaped by sh, every step under the policy pol.
WorkflowOf(n, pol, sh) ==
    Workflow([k \in 1..n |-> MkStep(k - 1, sh[k][1], sh[k][2], pol)])

\* Policies of the long workflows (up to MaxSteps steps): one attempt per
\* step, or none (a negative max_retries).
SharedPolicies == {[max_retries |-> m, retry_delay |-> 1] : m \in {-1, 0}}

\* Policies of the short workflows (up to MaxFewSteps steps): each key is
\* absent or set, backoff_multiplier included (the code never reads it).
OptKey(k, vals) == {EmptyDict} \cup {(k :> v) : v \in vals}

RetryPolicies ==
    {a @@ b @@ c : a \in OptKey("max_retries", (-1)..MaxRetriesFew),
                   b \in OptKey("retry_delay", 1..MaxDelay),
                   c \in OptKey("backoff_multiplier", 2..MaxMultiplier)}

NoWorkflow == Workflow(<<>>)

\* The ids a client may name in a call
WorkflowIds == {"w1", "w2"}

WithId(wf, id) == [wf EXCEPT !.id = id]

\* The workflow wf with step k (1-based) turned into a "wait" action of
\* duration seconds, declared with a timeout of timeout seconds.
Timed(wf, k, duration, timeout) ==
    [wf EXCEPT !.actions[k] =
        [action_type |-> "wait",
         parameters |-> Put(@.parameters, "duration", duration),
         dependencies |-> @.dependencies,
         retry_policy |-> @.retry_policy,
         timeout |-> timeout]]

\* The workflow wf with a step k that is not an action object: it has no
\* action_type.
Untyped(wf, k) ==
    [wf EXCEPT !.actions[k] = [x \in DOMAIN @ \ {"action_type"} |-> @[x]]]

\* The workflow wf with its step k left without a retry policy of its own (a
\* CUAAction has none), the policy being the workflow's default instead.
Defaulted(wf, k) ==
    [wf EXCEPT !.actions[k] = [x \in DOMAIN @ \ {"retry_policy"} |-> @[x]]]
    @@ ("retry_policy" :> wf.actions[k].retry_policy)

\* Policies of the workflows run next to cancel and status calls
OpsPolicies == {[max_retries |-> m, retry_delay |-> 1] : m \in {0, 1}}

\* A workflow of action objects, or the same with its last step untyped, or
\* with its first step under the workflow's default policy, or with its first
\* step a timed wait.
Variants(wf) ==
    {wf} \cup
    IF wf.actions = <<>> THEN {}
    ELSE {Untyped(wf, Len(wf.actions)), Defaulted(wf, 1)} \cup
         {Timed(wf, 1, d, t) : d \in 1..MaxWait, t \in 1..MaxWait}

\* Workflows of two concurrent calls: n independent steps under one policy
Independent(n, crit, pol) ==
    Workflow([k \in 1..n |-> MkStep(k - 1, crit[k], 0, pol)])

\* ----------------------------------------------------------- step results
\* step.parameters.get("critical", True)
Critical(step) == Get(step.parameters, "critical", TRUE)

\* getattr(step, 'id', f"step_{i}")
StepId(step, i) == Get(step, "id", i)

\* The dict built by the handler "except Exception as e" of the step loop.
ExceptResult(i, step, e) ==
    [step_index |-> i, step_id |-> StepId(step, i), success |-> FALSE,
     error |-> e, execution_time |-> 0]

\* What the awaited _mock_step_execution takes, in ticks: its own sleep,
\* and the duration of a "wait" action.
ActionTime(step) ==
    1 + (IF step.action_type = "wait"
         THEN TicksPerSecond * Get(step.parameters, "duration", 1)
         ELSE 0)

\* the 0-based loop variable recorded as the attempt
SuccessResultZeroBased(step, att) ==
    [action |-> step.action_type, success |-> TRUE, attempt |-> att,
     execution_time |-> ActionTime(step)]

\* What _execute_step_with_retry returns on success: the mock's payload
\* updated with success, attempt (1-based) and the measured time.
SuccessResult(step, att) ==
    [action |-> step.action_type, success |-> TRUE, attempt |-> att + 1,
     execution_time |-> ActionTime(step)]

\* What _execute_step_with_retry returns when all attempts failed; e is
\* str(last_error).
FailedResult(max_retries, e) ==
    [success |-> FALSE, error |-> e, attempts |-> max_retries + 1,
     execution_time |-> 0]

\* step_result["step_index"] = i; step_result["step_id"] = ...
Tagged(step_result, i, step) ==
    Put(Put(step_result, "step_index", i), "step_id", StepId(step, i))

\* a dependency counted as met by any recorded result, failed ones too
check_step_dependencies_any(step, previous_results) ==
    LET dependencies == Get(step, "dependencies", NoDeps)
        recorded_step_ids ==
            {previous_results[k].step_id : k \in 1..Len(previous_results)}
    IN  dependencies = NoDeps \/ \A d \in dependencies : d \in recorded_step_ids

\* a dependency with no recorded result yet is left for later: only the
\* dependencies that were processed must have succeeded
check_step_dependencies_deferring(step, previous_results) ==
    LET dependencies == Get(step, "dependencies", NoDeps)
        recorded == {k \in 1..Len(previous_results) :
                        previous_results[k].step_id \in dependencies}
    IN  \A k \in recorded : previous_results[k].success

\* _check_step_dependencies(step, previous_results)
check_step_dependencies(step, previous_results) ==
    LET dependencies == Get(step, "dependencies", NoDeps)
        completed_step_ids ==
            {previous_results[k].step_id : k \in
                {j \in 1..Len(previous_results) : previous_results[j].success}}
    IN  dependencies = NoDeps \/ \A d \in dependencies : d \in completed_step_ids

MaxRetriesOf(step) == Get(step.retry_policy, "max_retries", DefaultMaxRetries)

RetryDelayOf(step) == Get(step.retry_policy, "retry_delay", DefaultRetryDelay)

\* ------------------------------------------------------------- the step loop
DependencyError == "Step dependencies not met"
CriticalError == "Critical step failed"
ActionError == "action failed"
AttributeError == "no attribute retry_policy"
NoError == "None"
NotInitializedError == "Workflow executor not initialized"

\* range(max_retries) in place of range(max_retries + 1)
HasAttemptShort(att, max_retries) == att < max_retries

\* attempt is in range(max_retries + 1)
HasAttempt(att, max_retries) == att < max_retries + 1

\* retry_delay *= 2
NextDelay(d) == d * BackoffFactor

\* The body of "for i, step in enumerate(workflow.actions)" from step i on, run
\* until the coroutine suspends in the first action call or the loop ends.
\* step_done is what follows the return of _execute_step_with_retry.
\* Both yield [suspended, raised, i, results]; raised: an exception left the
\* loop (logger.info reads step.action_type outside the loop's try).
RECURSIVE step_loop(_, _, _)
RECURSIVE step_done(_, _, _, _)

step_loop(wf, i, res) ==
    IF i >= Len(wf.actions)
    THEN [suspended |-> FALSE, raised |-> FALSE, i |-> i, results |-> res]
    ELSE LET step == wf.actions[i + 1] IN
         IF "action_type" \notin DOMAIN step
         THEN [suspended |-> FALSE, raised |-> TRUE, i |-> i, results |-> res]
         ELSE IF ~check_step_dependencies(step, res)
         THEN \* raise Exception("Step dependencies not met"), caught two lines below
              LET res1 == Append(res, ExceptResult(i, step, DependencyError)) IN
              IF Critical(step)
              THEN [suspended |-> FALSE, raised |-> FALSE, i |-> i, results |-> res1]
              ELSE step_loop(wf, i + 1, res1)
         ELSE IF "retry_policy" \notin DOMAIN step
         THEN \* step.retry_policy raises AttributeError, caught by the same handler
              LET res1 == Append(res, ExceptResult(i, step, AttributeError)) IN
              IF Critical(step)
              THEN [suspended |-> FALSE, raised |-> FALSE, i |-> i, results |-> res1]
              ELSE step_loop(wf, i + 1, res1)
         ELSE IF ~HasAttempt(0, MaxRetriesOf(step))
         THEN \* range(max_retries + 1) is empty: no attempt, last_error is None
              step_done(wf, i, res, FailedResult(MaxRetriesOf(step), NoError))
         ELSE [suspended |-> TRUE, raised |-> FALSE, i |-> i, results |-> res]

\* the failure of a critical step leaves the loop as an exception
step_done_raising(wf, i, res, step_result) ==
    LET step == wf.actions[i + 1]
        res1 == Append(res, Tagged(step_result, i, step))
    IN  IF ~Get(step_result, "success", FALSE) /\ Critical(step)
        THEN [suspended |-> FALSE, raised |-> TRUE, i |-> i, results |-> res1]
        ELSE step_loop(wf, i + 1, res1)

step_done(wf, i, res, step_result) ==
    LET step == wf.actions[i + 1]
        res1 == Append(res, Tagged(step_result, i, step))
    IN  IF ~Get(step_result, "success", FALSE) /\ Critical(step)
        THEN \* raise Exception("Critical step failed"): the handler appends again
             [suspended |-> FALSE, raised |-> FALSE, i |-> i,
              results |-> Append(res1, ExceptResult(i, step, CriticalError))]
        ELSE step_loop(wf, i + 1, res1)

\* ------------------------------------------------------- the workflow result
\* every entry counted, failed ones too
SuccessfulAll(res) == 1..Len(res)

Successful(res) == {k \in 1..Len(res) : Get(res[k], "success", FALSE)}

\* successful_steps / total_steps if total_steps > 0 else 0, kept as a fraction
SuccessRate(successful_steps, total_steps) ==
    IF total_steps > 0 THEN [num |-> successful_steps, den |-> total_steps]
                       ELSE [num |-> 0, den |-> 1]

\* the threshold taken as exclusive
MeetsThresholdStrict(rate) == rate.num * ThresholdDen > ThresholdNum * rate.den

\* success_rate >= 0.8.  The float quotient of two small integers compares
\* with the float 0.8 as the fractions do.
MeetsThreshold(rate) == rate.num * ThresholdDen >= ThresholdNum * rate.den

workflow_result(wf, res, retries, start, end) ==
    LET successful_steps == Cardinality(Successful(res))
        total_steps == Len(res)
        success_rate == SuccessRate(successful_steps, total_steps)
    IN  [workflow_id |-> wf.id, workflow_name |-> wf.name,
         success |-> MeetsThreshold(success_rate),
         success_rate |-> success_rate,
         total_steps |-> total_steps,
         successful_steps |-> successful_steps,
         execution_time |-> end - start,
         step_results |-> res,
         start_time |-> start,
         end_time |-> end,
         retry_attempts |-> retries]

\* ------------------------------------------------------------------ actions
Invoke(i, att, ok) ==
    [kind |-> "invoke", step_index |-> i, attempt |-> att, ok |-> ok, delay |-> 0]

Sleep(i, att, d) ==
    [kind |-> "sleep", step_index |-> i, attempt |-> att, ok |-> FALSE, delay |-> d]

\* Python's None: what get_workflow_status returns for an unknown id
None == EmptyDict

NoReply == [asked |-> "", value |-> None, nth |-> 0]

\* WorkflowExecutionContext.current_step: set at construction, never assigned
current_step(r) == 0

\* The run r goes on after a piece of the loop, at time t: it suspends in the
\* first action call of step lr.i; or the loop is over and execute_workflow
\* stores the result (the run began at time start), deregisters and returns;
\* or an exception left the loop
\* and the outer handler deregisters and raises it again.
Resume(r, lr, active, retries, start, t) ==
    /\ step_i' = [step_i EXCEPT ![r] = lr.i]
    /\ results' = [results EXCEPT ![r] = lr.results]
    /\ total_retries' = [total_retries EXCEPT ![r] = retries]
    /\ now' = t
    /\ status_reply' = NoReply
    /\ IF lr.suspended
       THEN /\ pc' = [pc EXCEPT ![r] = "invoking"]
            /\ attempt' = [attempt EXCEPT ![r] = 0]
            /\ retry_delay' = [retry_delay EXCEPT
                                  ![r] = RetryDelayOf(workflow[r].actions[lr.i + 1])]
            /\ active_workflows' = active
            /\ UNCHANGED <<workflow_results, returned>>
       ELSE IF lr.raised
       THEN /\ pc' = [pc EXCEPT ![r] = "raised"]
            /\ active_workflows' = Del(active, workflow[r].id)
            /\ returned' = [returned EXCEPT ![r] = [exception |-> AttributeError]]
            /\ UNCHANGED <<workflow_results, attempt, retry_delay>>
       ELSE LET result == workflow_result(workflow[r], lr.results, retries,
                                          start, t) IN
            /\ pc' = [pc EXCEPT ![r] = "returned"]
            /\ workflow_results' = Put(workflow_results, workflow[r].id, result)
            /\ active_workflows' = Del(active, workflow[r].id)
            /\ returned' = [returned EXCEPT ![r] = result]
            /\ UNCHANGED <<attempt, retry_delay>>

\* WorkflowExecutor.initialize, called by the service's startup handler
initialize ==
    /\ UNCHANGED outsideExecutor
    /\ ~is_initialized
    /\ active_workflows' = EmptyDict
    /\ workflow_results' = EmptyDict
    /\ is_initialized' = TRUE
    /\ status_reply' = NoReply
    /\ UNCHANGED <<workflow, pc, step_i, results, attempt, retry_delay,
                   total_retries, returned, log, now, start_time, cancelled>>

\* execute_workflow without its check of is_initialized
execute_workflow_unguarded(r) ==
    /\ UNCHANGED outsideExecutor
    /\ pc[r] = "ready"
    /\ start_time' = [start_time EXCEPT ![r] = now]
    /\ Resume(r, step_loop(workflow[r], 0, <<>>),
              Put(active_workflows, workflow[r].id, r), 0, now, now)
    /\ UNCHANGED <<is_initialized, workflow, log, cancelled>>

\* execute_workflow is called: up to the first suspension
execute_workflow(r) ==
    /\ UNCHANGED outsideExecutor
    /\ pc[r] = "ready"
    /\ IF ~is_initialized
       THEN /\ pc' = [pc EXCEPT ![r] = "raised"]
            /\ returned' = [returned EXCEPT ![r] = [exception |-> NotInitializedError]]
            /\ status_reply' = NoReply
            /\ UNCHANGED <<active_workflows, workflow_results, step_i, results,
                           attempt, retry_delay, total_retries, now, start_time>>
       ELSE /\ start_time' = [start_time EXCEPT ![r] = now]
            /\ Resume(r, step_loop(workflow[r], 0, <<>>),
                      Put(active_workflows, workflow[r].id, r), 0, now, now)
    /\ UNCHANGED <<is_initialized, workflow, log, cancelled>>

\* The awaited _mock_step_execution returns its payload.  Whether an action
\* call returns or raises is the executor's to decide: either may happen.
action_succeeds(r) ==
    /\ UNCHANGED outsideExecutor
    /\ pc[r] = "invoking"
    /\ LET step == workflow[r].actions[step_i[r] + 1] IN
       Resume(r, step_done(workflow[r], step_i[r], results[r],
                           SuccessResult(step, attempt[r])),
              active_workflows, total_retries[r], start_time[r],
              now + ActionTime(workflow[r].actions[step_i[r] + 1]))
    /\ log' = [log EXCEPT ![r] = Append(@, Invoke(step_i[r], attempt[r], TRUE))]
    /\ UNCHANGED <<is_initialized, workflow, start_time, cancelled>>

\* the awaited _mock_step_execution raises
action_fails(r) ==
    /\ UNCHANGED outsideExecutor
    /\ pc[r] = "invoking"
    /\ LET step == workflow[r].actions[step_i[r] + 1]
           max_retries == MaxRetriesOf(step)
           invoked == Append(log[r], Invoke(step_i[r], attempt[r], FALSE))
       IN  IF HasAttempt(attempt[r] + 1, max_retries)
           THEN \* attempt < max_retries: await asyncio.sleep(retry_delay)
                /\ pc' = [pc EXCEPT ![r] = "sleeping"]
                /\ total_retries' = [total_retries EXCEPT ![r] = @ + 1]
                /\ log' = [log EXCEPT
                              ![r] = Append(invoked, Sleep(step_i[r], attempt[r], retry_delay[r]))]
                /\ now' = now + 1
                /\ status_reply' = NoReply
                /\ UNCHANGED <<active_workflows, workflow_results, step_i, results,
                               attempt, retry_delay, returned>>
           ELSE /\ Resume(r, step_done(workflow[r], step_i[r], results[r],
                                       FailedResult(max_retries, ActionError)),
                          active_workflows, total_retries[r] + 1, start_time[r], now + 1)
                /\ log' = [log EXCEPT ![r] = invoked]
    /\ UNCHANGED <<is_initialized, workflow, start_time, cancelled>>

\* asyncio.sleep(retry_delay) is over: double the delay, next attempt
backoff_elapsed(r) ==
    /\ UNCHANGED outsideExecutor
    /\ pc[r] = "sleeping"
    /\ retry_delay' = [retry_delay EXCEPT ![r] = NextDelay(@)]
    /\ attempt' = [attempt EXCEPT ![r] = @ + 1]
    /\ pc' = [pc EXCEPT ![r] = "invoking"]
    /\ now' = now + TicksPerSecond * retry_delay[r]
    /\ status_reply' = NoReply
    /\ UNCHANGED <<is_initialized, active_workflows, workflow_results, workflow,
                   step_i, results, total_retries, returned, log, start_time,
                   cancelled>>

\* the completed store consulted before the active registry
workflow_status_stored_first(workflow_id) ==
    IF workflow_id \in DOMAIN workflow_results
    THEN [workflow_id |-> workflow_id,
          status |-> "completed",
          success |-> workflow_results[workflow_id].success,
          execution_time |-> workflow_results[workflow_id].execution_time]
    ELSE IF workflow_id \in DOMAIN active_workflows
    THEN [workflow_id |-> workflow_id,
          status |-> "running",
          start_time |-> start_time[active_workflows[workflow_id]],
          current_step |-> current_step(active_workflows[workflow_id]),
          total_steps |-> Len(workflow[active_workflows[workflow_id]].actions)]
    ELSE None

\* What get_workflow_status(workflow_id) returns in the current state.
workflow_status(workflow_id) ==
    IF workflow_id \in DOMAIN active_workflows
    THEN LET context == active_workflows[workflow_id] IN
         [workflow_id |-> workflow_id,
          status |-> "running",
          start_time |-> start_time[context],
          current_step |-> current_step(context),
          total_steps |-> Len(workflow[context].actions)]
    ELSE IF workflow_id \in DOMAIN workflow_results
    THEN LET result == workflow_results[workflow_id] IN
         [workflow_id |-> workflow_id,
          status |-> "completed",
          success |-> result.success,
          execution_time |-> result.execution_time]
    ELSE None

\* how many calls in a row have asked for workflow_id, this one included
Nth(workflow_id) == IF status_reply.asked = workflow_id THEN status_reply.nth + 1 ELSE 1

\* a query that takes the result out of the completed store
get_workflow_status_consuming(workflow_id) ==
    /\ UNCHANGED outsideExecutor
    /\ Nth(workflow_id) <= MaxQueries
    /\ status_reply' = [asked |-> workflow_id, value |-> workflow_status(workflow_id),
                        nth |-> Nth(workflow_id)]
    /\ workflow_results' = Del(workflow_results, workflow_id)
    /\ UNCHANGED <<is_initialized, active_workflows, workflow, pc,
                   step_i, results, attempt, retry_delay, total_retries, returned,
                   log, now, start_time, cancelled>>

\* get_workflow_status(workflow_id) is called and answers
get_workflow_status(workflow_id) ==
    /\ UNCHANGED outsideExecutor
    /\ Nth(workflow_id) <= MaxQueries
    /\ status_reply' = [asked |-> workflow_id, value |-> workflow_status(workflow_id),
                        nth |-> Nth(workflow_id)]
    /\ UNCHANGED <<is_initialized, active_workflows, workflow_results, workflow, pc,
                   step_i, results, attempt, retry_delay, total_retries, returned,
                   log, now, start_time, cancelled>>

\* the context left in the registry
NotRemoved(active, workflow_id) == active

\* del self.active_workflows[workflow_id]
Removed(active, workflow_id) == Del(active, workflow_id)

\* cancel_workflow(workflow_id) is called; it returns True in the first case
cancel_workflow(workflow_id) ==
    /\ UNCHANGED outsideExecutor
    /\ IF workflow_id \in DOMAIN active_workflows
       THEN LET r == active_workflows[workflow_id] IN
            /\ active_workflows' = Removed(active_workflows, workflow_id)
            /\ cancelled' = [cancelled EXCEPT ![r] = <<Len(log[r]), Len(results[r])>>]
       ELSE UNCHANGED <<active_workflows, cancelled>>
    /\ status_reply' = NoReply
    /\ UNCHANGED <<is_initialized, workflow_results, workflow, pc, step_i, results,
                   attempt, retry_delay, total_retries, returned, log, now,
                   start_time>>

\* cleanup(), called by the service's shutdown handler: cancel_workflow for
\* every active id (none of its awaits suspends), clear the results, mark
\* the executor not initialized.
cleanup ==
    /\ UNCHANGED outsideExecutor
    /\ cancelled' = [r \in Runs |->
                        IF \E id \in DOMAIN active_workflows : active_workflows[id] = r
                        THEN <<Len(log[r]), Len(results[r])>>
                        ELSE cancelled[r]]
    /\ active_workflows' = EmptyDict
    /\ workflow_results' = EmptyDict
    /\ is_initialized' = FALSE
    /\ status_reply' = NoReply
    /\ UNCHANGED <<workflow, pc, step_i, results, attempt, retry_delay,
                   total_retries, returned, log, now, start_time>>

\* ------------------------------------------------------------ the message bus
\* Nothing published, MessageBus.consume not called.
BusInit ==
    /\ bus_queue = <<>>
    /\ bus_unacked = <<>>
    /\ consumer = "none"
    /\ bus_log = <<>>

Bodies == {"a", "b"}

BusEvent(kind, msg) == [kind |-> kind, id |-> msg.id]

Events(kind) == {k \in 1..Len(bus_log) : bus_log[k].kind = kind}

\* MessageBus.publish(queue, body): a persistent message on the durable queue
publish(body) ==
    /\ Cardinality(Events("publish")) < MaxMessages
    /\ LET msg == [id |-> Cardinality(Events("publish")) + 1, body |-> body,
                   redelivered |-> FALSE] IN
       /\ bus_queue' = Append(bus_queue, msg)
       /\ bus_log' = Append(bus_log, BusEvent("publish", msg))
    /\ UNCHANGED <<bus_unacked, consumer, outsideBus>>

\* MessageBus.consume(queue, handler) up to channel.start_consuming(); it is
\* called when the service starts.
consume ==
    /\ consumer \in {"none", "stopped"}
    /\ consumer' = "waiting"
    /\ UNCHANGED <<bus_queue, bus_unacked, bus_log, outsideBus>>

\* The broker delivers the head of the queue (prefetch_count=1: only when no
\* delivery is unacknowledged) and _callback calls handler(body).
deliver ==
    /\ consumer = "waiting"
    /\ bus_queue # <<>>
    /\ bus_unacked = <<>>
    /\ bus_unacked' = <<Head(bus_queue)>>
    /\ bus_queue' = Tail(bus_queue)
    /\ consumer' = "handling"
    /\ bus_log' = Append(bus_log, BusEvent("deliver", Head(bus_queue)))
    /\ UNCHANGED outsideBus

\* handler(body) raises and the message is acknowledged all the same
handler_raises_acking ==
    /\ consumer = "handling"
    /\ Cardinality(Events("raise")) < MaxRaises
    /\ bus_log' = bus_log \o <<BusEvent("raise", bus_unacked[1]),
                                BusEvent("ack", bus_unacked[1])>>
    /\ bus_unacked' = <<>>
    /\ consumer' = "stopped"
    /\ UNCHANGED <<bus_queue, outsideBus>>

\* handler(body) raises: the exception leaves _callback, start_consuming and
\* consume; basic_ack is not reached.
handler_raises ==
    /\ consumer = "handling"
    /\ Cardinality(Events("raise")) < MaxRaises
    /\ bus_log' = Append(bus_log, BusEvent("raise", bus_unacked[1]))
    /\ consumer' = "stopped"
    /\ UNCHANGED <<bus_queue, bus_unacked, outsideBus>>

\* handler(body) returns; ch.basic_ack(delivery_tag) and back to the loop of
\* start_consuming.
handler_returns ==
    /\ consumer = "handling"
    /\ bus_log' = bus_log \o <<BusEvent("return", bus_unacked[1]),
                                BusEvent("ack", bus_unacked[1])>>
    /\ bus_unacked' = <<>>
    /\ consumer' = "waiting"
    /\ UNCHANGED <<bus_queue, outsideBus>>

\* The connection of a consume call that has ended goes away: the broker puts
\* its unacknowledged delivery back at the head of the queue.
connection_closed ==
    /\ consumer # "handling"
    /\ bus_unacked # <<>>
    /\ bus_queue' = <<[bus_unacked[1] EXCEPT !.redelivered = TRUE]>> \o bus_queue
    /\ bus_unacked' = <<>>
    /\ UNCHANGED <<consumer, bus_log, outsideBus>>

\* -------------------------------------------------------- the execution agent
Tasks == {"t1", "t2"}

\* execution_registry = {}; no request in progress
AgentInit ==
    /\ execution_registry = EmptyDict
    /\ task_pc = [t \in Tasks |-> "idle"]
    /\ task_left = [t \in Tasks |-> 0]
    /\ stopped = {}

\* result.status = status, for the ExecutionResult registered under task_id
WithStatus(registry, task_id, status) ==
    [registry EXCEPT ![task_id] = [@ EXCEPT !.status = status]]

\* POST /execute with n actions: the result is registered as RUNNING
execute_task(t) ==
    /\ task_pc[t] = "idle"
    /\ \E n \in 0..MaxActions : task_left' = [task_left EXCEPT ![t] = n]
    /\ execution_registry' = Put(execution_registry, t,
                                 [task_id |-> t, status |-> "RUNNING"])
    /\ task_pc' = [task_pc EXCEPT ![t] = "loop"]
    /\ UNCHANGED <<stopped, outsideAgent>>

\* execute_cua_action(action) returns: next action
cua_action_done(t) ==
    /\ task_pc[t] = "loop"
    /\ task_left[t] > 0
    /\ task_left' = [task_left EXCEPT ![t] = @ - 1]
    /\ UNCHANGED <<execution_registry, task_pc, stopped, outsideAgent>>

\* execute_cua_action(action) raises: status FAILED, break
cua_action_blocked(t) ==
    /\ task_pc[t] = "loop"
    /\ task_left[t] > 0
    /\ execution_registry' = WithStatus(execution_registry, t, "FAILED")
    /\ task_pc' = [task_pc EXCEPT ![t] = "finishing"]
    /\ UNCHANGED <<task_left, stopped, outsideAgent>>

\* the final status: COMPLETED unless the status is FAILED
FinalStatus(status) == IF status # "FAILED" THEN "COMPLETED" ELSE status

\* After the loop: the final status, then the completion event is published
\* and the result returned, or publishing raises and the handler registers
\* a FAILED result.
finish_task(t) ==
    /\ \/ task_pc[t] = "finishing"
       \/ task_pc[t] = "loop" /\ task_left[t] = 0
    /\ \/ /\ execution_registry' =
                 WithStatus(execution_registry, t,
                            FinalStatus(execution_registry[t].status))
          /\ task_pc' = [task_pc EXCEPT ![t] = "returned"]
       \/ /\ execution_registry' = Put(execution_registry, t,
                                       [task_id |-> t, status |-> "FAILED"])
          /\ task_pc' = [task_pc EXCEPT ![t] = "raised"]
    /\ UNCHANGED <<task_left, stopped, outsideAgent>>

\* POST /emergency_stop: every RUNNING result is marked CANCELLED
emergency_stop ==
    LET running == {t \in DOMAIN execution_registry :
                       execution_registry[t].status = "RUNNING"} IN
    /\ execution_registry' =
          [t \in DOMAIN execution_registry |->
              IF t \in running
              THEN [execution_registry[t] EXCEPT !.status = "CANCELLED"]
              ELSE execution_registry[t]]
    /\ stopped' = stopped \cup running
    /\ UNCHANGED <<task_pc, task_left, outsideAgent>>

\* ----------------------------------------------------- the notification system
\* NotificationSystem.__init__
HudInit ==
    /\ active_notifications = <<>>
    /\ notification_queue = <<>>
    /\ is_running = FALSE
    /\ dismiss_tasks = {}
    /\ shown = 0
    /\ displays = 0
    /\ dequeued = 0

\* A NotificationItem: seq tells the items of one id apart (the object's
\* identity); display_time 0 is None.
NotificationItem(id, seq, duration) ==
    [id |-> id, seq |-> seq, duration |-> duration, display_time |-> 0]

\* the durations callers give: the default of NotificationItem
Durations == {DefaultDuration}

\* notification.id in self.active_notifications
IsActive(active, id) == \E k \in 1..Len(active) : active[k].id = id

\* self.active_notifications[notification.id] = notification: a dict keeps
\* the position of a key it already has
Assign(active, item) ==
    IF IsActive(active, item.id)
    THEN [k \in 1..Len(active) |-> IF active[k].id = item.id THEN item ELSE active[k]]
    ELSE Append(active, item)

\* del self.active_notifications[id], when the id is there
Without(active, id) == SelectSeq(active, LAMBDA x : x.id # id)

\* the capacity test that lets one more in
AtCapacityExceeded(active) == Len(active) > max_concurrent_notifications

\* len(self.active_notifications) >= self.max_concurrent_notifications
AtCapacity(active) == Len(active) >= max_concurrent_notifications

\* The methods below work on st = [active, queue, tasks, clock, dequeued].
\* _display_notification(notification)
display_notification(st, notification) ==
    [st EXCEPT !.active = Assign(@, [notification EXCEPT !.display_time = st.clock + 1]),
               !.clock = @ + 1,
               !.tasks = IF notification.duration > 0
                         THEN @ \cup {[id |-> notification.id, seq |-> notification.seq]}
                         ELSE @]

\* _hide_notification(notification)
hide_notification(st, notification) ==
    LET st1 == [st EXCEPT !.active = Without(@, notification.id)] IN
    IF st1.queue # <<>>
    THEN display_notification([st1 EXCEPT !.queue = Tail(@),
                                          !.dequeued = Head(st1.queue).seq],
                              Head(st1.queue))
    ELSE st1

\* for notification in expired_notifications: await self._hide_notification(...)
RECURSIVE hide_all(_, _)
hide_all(st, expired) ==
    IF expired = <<>> THEN st
    ELSE hide_all(hide_notification(st, Head(expired)), Tail(expired))

\* while len(active) < max_concurrent_notifications and notification_queue: ...
RECURSIVE fill(_)
fill(st) ==
    IF ~AtCapacity(st.active) /\ st.queue # <<>>
    THEN fill(display_notification([st EXCEPT !.queue = Tail(@),
                                              !.dequeued = Head(st.queue).seq],
                                   Head(st.queue)))
    ELSE st

HudState == [active |-> active_notifications, queue |-> notification_queue,
             tasks |-> dismiss_tasks, clock |-> displays, dequeued |-> dequeued]

Becomes(st) ==
    /\ active_notifications' = st.active
    /\ notification_queue' = st.queue
    /\ dismiss_tasks' = st.tasks
    /\ displays' = st.clock
    /\ dequeued' = st.dequeued

\* NotificationSystem.initialize: the processor task is started
start_notifications ==
    /\ is_running' = TRUE
    /\ UNCHANGED <<active_notifications, notification_queue, dismiss_tasks, shown,
                   displays, dequeued, outsideHud>>

\* show_notification(notification): the id is new, or that of the first
\* notification again
show_notification(id, duration) ==
    /\ shown < MaxShown
    /\ id \in {shown + 1, 1}
    /\ shown' = shown + 1
    /\ LET notification_item == NotificationItem(id, shown + 1, duration) IN
       IF AtCapacity(active_notifications)
       THEN Becomes([HudState EXCEPT !.queue = Append(@, notification_item)])
       ELSE Becomes(display_notification(HudState, notification_item))
    /\ UNCHANGED <<is_running, outsideHud>>

\* dismiss_notification(notification_id)
dismiss_notification(notification_id) ==
    /\ IF IsActive(active_notifications, notification_id)
       THEN LET notification ==
                   CHOOSE x \in {active_notifications[k] :
                                     k \in 1..Len(active_notifications)} :
                       x.id = notification_id
            IN  Becomes(hide_notification(HudState, notification))
       ELSE UNCHANGED <<active_notifications, notification_queue, dismiss_tasks,
                        displays, dequeued>>
    /\ UNCHANGED <<is_running, shown, outsideHud>>

\* the tasks asyncio.create_task(self._auto_dismiss_notification(...)) can make
SleepingTasks == [id : 1..MaxShown, seq : 1..MaxShown]

\* _auto_dismiss_notification(notification), after its sleep
auto_dismiss_notification(notification) ==
    /\ notification \in dismiss_tasks
    /\ LET st == [HudState EXCEPT !.tasks = @ \ {notification}] IN
       IF IsActive(active_notifications, notification.id)
       THEN Becomes(hide_notification(st, notification))
       ELSE Becomes(st)
    /\ UNCHANGED <<is_running, shown, outsideHud>>

\* One cycle of _notification_processor: the active notifications whose
\* duration has passed are hidden (the durations being equal, those displayed
\* up to some moment of the clock), then the queue is drawn
\* from while there is room.
notification_processor ==
    /\ is_running
    /\ \E moment \in 0..displays :
          LET expired_notifications ==
                  SelectSeq(active_notifications,
                            LAMBDA x : x.duration > 0 /\ x.display_time <= moment)
          IN  Becomes(fill(hide_all(HudState, expired_notifications)))
    /\ UNCHANGED <<is_running, shown, outsideHud>>

\* ------------------------------------------------------------ specification
\* After construction: nothing registered, not initialized.  The runs in
\* ready are the client calls about to be made, run r with the workflow w[r].
Constructed(w, ready) ==
    /\ is_initialized = FALSE
    /\ active_workflows = EmptyDict
    /\ workflow_results = EmptyDict
    /\ workflow = w
    /\ pc = [r \in Runs |-> IF r \in ready THEN "ready" ELSE "absent"]
    /\ step_i = [r \in Runs |-> 0]
    /\ results = [r \in Runs |-> <<>>]
    /\ attempt = [r \in Runs |-> 0]
    /\ retry_delay = [r \in Runs |-> 0]
    /\ total_retries = [r \in Runs |-> 0]
    /\ returned = [r \in Runs |-> EmptyDict]
    /\ log = [r \in Runs |-> <<>>]
    /\ now = 0
    /\ start_time = [r \in Runs |-> 0]
    /\ cancelled = [r \in Runs |-> <<>>]
    /\ status_reply = NoReply
    /\ BusInit
    /\ AgentInit
    /\ HudInit

\* One client call is about to be made, by run 1.
Init ==
    \/ \E n \in 0..MaxSteps, pol \in SharedPolicies : \E sh \in [1..n -> StepShapes] :
          Constructed([r \in Runs |-> IF r = 1 THEN WorkflowOf(n, pol, sh) ELSE NoWorkflow],
                      {1})
    \/ \E n \in 1..MaxFewSteps, pol \in RetryPolicies : \E sh \in [1..n -> StepShapes] :
          Constructed([r \in Runs |-> IF r = 1 THEN WorkflowOf(n, pol, sh) ELSE NoWorkflow],
                      {1})

Next ==
    \/ initialize
    \/ \E r \in Runs : execute_workflow(r)
    \/ \E r \in Runs : action_succeeds(r)
    \/ \E r \in Runs : action_fails(r)
    \/ \E r \in Runs : backoff_elapsed(r)

Spec == Init /\ [][Next]_vars

\* One client call is about to be made, by run 1; cancel and status calls
\* arrive at any time.
InitOps ==
    \E n \in 0..MaxOpsSteps, pol \in OpsPolicies : \E sh \in [1..n -> StepShapes] :
       \E wf \in Variants(WorkflowOf(n, pol, sh)) :
          Constructed([r \in Runs |-> IF r = 1 THEN wf ELSE NoWorkflow], {1})

NextOps ==
    \/ Next
    \/ \E id \in WorkflowIds : cancel_workflow(id)
    \/ \E id \in WorkflowIds : get_workflow_status(id)

SpecOps == InitOps /\ [][NextOps]_vars

\* Two client calls are about to be made, under the same id or not, the
\* second with a workflow of one step; status calls arrive at any time.
InitConc ==
    \E n \in 1..MaxOpsSteps, id \in WorkflowIds, pol \in OpsPolicies :
       \E c1 \in [1..n -> BOOLEAN], c2 \in [1..1 -> BOOLEAN] :
          Constructed(<<Independent(n, c1, pol), WithId(Independent(1, c2, pol), id)>>,
                      Runs)

NextConc ==
    \/ Next
    \/ \E id \in WorkflowIds : get_workflow_status(id)

SpecConc == InitConc /\ [][NextConc]_vars

\* Two client calls are about to be made, under the same id or not, the first
\* with n critical steps and the second with one; the service may shut down
\* and start again at any time.
InitLife ==
    \E n \in 1..MaxOpsSteps, id \in WorkflowIds, pol \in OpsPolicies :
       Constructed(<<Independent(n, [k \in 1..n |-> TRUE], pol),
                     WithId(Independent(1, <<TRUE>>, pol), id)>>, Runs)

NextLife ==
    \/ Next
    \/ cleanup

SpecLife == InitLife /\ [][NextLife]_vars

\* The execution agent alone.
InitAgent == Constructed([r \in Runs |-> NoWorkflow], {})

NextAgent ==
    \/ \E t \in Tasks : execute_task(t)
    \/ \E t \in Tasks : cua_action_done(t)
    \/ \E t \in Tasks : cua_action_blocked(t)
    \/ \E t \in Tasks : finish_task(t)
    \/ emergency_stop

SpecAgent == InitAgent /\ [][NextAgent]_vars

\* The notification system alone.
InitHud == Constructed([r \in Runs |-> NoWorkflow], {})

NextHud ==
    \/ start_notifications
    \/ \E id \in 1..MaxShown, duration \in Durations : show_notification(id, duration)
    \/ \E id \in 1..MaxShown : dismiss_notification(id)
    \/ \E notification \in SleepingTasks : auto_dismiss_notification(notification)
    \/ notification_processor

SpecHud == InitHud /\ [][NextHud]_vars

\* The message bus alone: no client call of the workflow executor.
InitBus == Constructed([r \in Runs |-> NoWorkflow], {})

NextBus ==
    \/ \E body \in Bodies : publish(body)
    \/ consume
    \/ deliver
    \/ handler_returns
    \/ handler_raises
    \/ connection_closed

SpecBus == InitBus /\ [][NextBus]_vars

\* ------------------------------------------------------- reading the state
Returned(r) == pc[r] = "returned"

InStep(r) == pc[r] \in {"invoking", "sleeping"}

NSteps(r) == Len(workflow[r].actions)

StepAt(r, i) == workflow[r].actions[i + 1]

StepIndexes(r) == 0..(NSteps(r) - 1)

\* positions of the entries of step i in a result list
EntriesOf(res, i) == {k \in 1..Len(res) : res[k].step_index = i}

FailedAt(res, i) == \E k \in EntriesOf(res, i) : ~res[k].success

\* positions in the log of the invocations of step i's action
Invocations(r, i) ==
    {k \in 1..Len(log[r]) : log[r][k].kind = "invoke" /\ log[r][k].step_index = i}

\* step i was attempted max_retries + 1 times (max_retries >= 0), all failing
RetriesExhausted(r, i) ==
    /\ MaxRetriesOf(StepAt(r, i)) >= 0
    /\ Cardinality(Invocations(r, i)) = MaxRetriesOf(StepAt(r, i)) + 1
    /\ \A k \in Invocations(r, i) : ~log[r][k].ok

\* ------------------------------------------------------------------ claims

\* C1: when the first critical step to fail, its retries exhausted, is the
\* k-th declared step, the returned step_results has exactly k entries, one
\* for each of the steps 1..k and none for a later step.
C1_CriticalFailureKeepsKResults ==
    \A r \in Runs : Returned(r) =>
        \A i \in StepIndexes(r) :
            (Critical(StepAt(r, i)) /\ RetriesExhausted(r, i)) =>
                LET res == returned[r].step_results IN
                /\ Len(res) = i + 1
                /\ \A j \in 0..i : Cardinality(EntriesOf(res, j)) = 1
                /\ \A j \in StepIndexes(r) : j > i => EntriesOf(res, j) = {}

\* C2: a run that ended because a critical step failed returns success = false.
C2_CriticalFailureIsNotSuccess ==
    \A r \in Runs : Returned(r) =>
        ((\E i \in StepIndexes(r) :
              Critical(StepAt(r, i)) /\ FailedAt(returned[r].step_results, i))
         => returned[r].success = FALSE)

\* C3: after a non-critical step failed the run is at the next declared step;
\* a returned run of n steps in which no critical step failed has exactly n
\* step results, one per step in declared order; and 5 steps of which only the
\* non-critical third failed give success_rate 4/5 and success = true.
C3_NonCriticalFailureContinues ==
    \A r \in Runs :
        /\ (InStep(r) \/ Returned(r)) =>
              \A i \in StepIndexes(r) :
                  (~Critical(StepAt(r, i)) /\ FailedAt(results[r], i) /\ i + 1 < NSteps(r))
                  => \/ EntriesOf(results[r], i + 1) # {}
                     \/ InStep(r) /\ step_i[r] = i + 1
        /\ Returned(r) =>
              LET res == returned[r].step_results IN
              /\ (\A i \in StepIndexes(r) : ~(Critical(StepAt(r, i)) /\ FailedAt(res, i)))
                 => /\ Len(res) = NSteps(r)
                    /\ \A k \in 1..Len(res) : res[k].step_index = k - 1
              /\ (/\ NSteps(r) = 5
                  /\ ~Critical(StepAt(r, 2))
                  /\ \A k \in 1..Len(res) : res[k].success <=> res[k].step_index # 2)
                 => /\ returned[r].success_rate = [num |-> 4, den |-> 5]
                    /\ returned[r].success = TRUE

C3_Witness ==
    /\ Returned(1)
    /\ NSteps(1) = 5
    /\ ~Critical(StepAt(1, 2))
    /\ Len(returned[1].step_results) = 5
    /\ \A k \in 1..5 : returned[1].step_results[k].success <=> k # 3
    /\ returned[1].success

\* C4: in every returned WorkflowResult successful_steps counts the entries of
\* step_results with success = true, total_steps is the number of entries,
\* success_rate is their quotient (0 for no entry) and success is true exactly
\* when success_rate >= 0.8.
C4_AggregateOfStepResults ==
    \A r \in Runs : Returned(r) =>
        LET w == returned[r]
            res == w.step_results
            succ == Cardinality({k \in 1..Len(res) : res[k].success})
        IN  /\ w.successful_steps = succ
            /\ w.total_steps = Len(res)
            /\ Len(res) = 0 => w.success_rate.num = 0
            /\ Len(res) > 0 => w.success_rate.num * Len(res) = succ * w.success_rate.den
            /\ w.success_rate.den > 0
            /\ w.success <=> (10 * w.success_rate.num >= 8 * w.success_rate.den)
            /\ w.success <=> (Len(res) > 0 /\ 5 * succ >= 4 * Len(res))

C4_Witness ==
    /\ Returned(1)
    /\ returned[1].total_steps = 4
    /\ returned[1].successful_steps = 3
    /\ ~returned[1].success

\* C5: while the action of a step is being attempted, every id among the
\* step's dependencies has a result with success = true recorded earlier in
\* the run; a step without dependencies is never denied.
C5_DependenciesBeforeAction ==
    \A r \in Runs :
        /\ InStep(r) =>
              \A d \in Get(StepAt(r, step_i[r]), "dependencies", NoDeps) :
                  \E k \in 1..Len(results[r]) :
                      results[r][k].step_id = d /\ results[r][k].success
        /\ \A k \in 1..Len(results[r]) :
              LET step == StepAt(r, results[r][k].step_index) IN
              (Get(step, "dependencies", NoDeps) = NoDeps /\ MaxRetriesOf(step) >= 0)
              => Invocations(r, results[r][k].step_index) # {}
        /\ \A k \in 1..Len(log[r]) :
              \A d \in Get(StepAt(r, log[r][k].step_index), "dependencies", NoDeps) :
                  \E j \in 1..Len(results[r]) :
                      /\ results[r][j].step_id = d
                      /\ results[r][j].success
                      /\ results[r][j].step_index < log[r][k].step_index

C5_Witness ==
    /\ pc[1] = "invoking"
    /\ Get(StepAt(1, step_i[1]), "dependencies", NoDeps) # NoDeps

\* position of the first entry of step i (0 if it has none)
FirstEntry(res, i) ==
    IF EntriesOf(res, i) = {} THEN 0
    ELSE CHOOSE k \in EntriesOf(res, i) : \A j \in EntriesOf(res, i) : k <= j

\* step i has been processed and the dependency gate denied it
GateDenied(r, i) ==
    /\ EntriesOf(results[r], i) # {}
    /\ ~check_step_dependencies(StepAt(r, i),
                                SubSeq(results[r], 1, FirstEntry(results[r], i) - 1))

\* step i has been processed or is in progress, and the gate allowed it
GateAllowed(r, i) ==
    \/ InStep(r) /\ step_i[r] = i
    \/ /\ EntriesOf(results[r], i) # {}
       /\ check_step_dependencies(StepAt(r, i),
                                  SubSeq(results[r], 1, FirstEntry(results[r], i) - 1))

\* C6: a step denied by the dependency gate has exactly one result, with
\* success = false, attempt = 0, execution_time = 0 and error
\* "dependency_not_met"; its action is never invoked; a critical denied step
\* is the last step of the run.
C6_DenialResult ==
    \A r \in Runs : \A i \in StepIndexes(r) : GateDenied(r, i) =>
        LET e == results[r][FirstEntry(results[r], i)] IN
        /\ Cardinality(EntriesOf(results[r], i)) = 1
        /\ e.success = FALSE
        /\ e.execution_time = 0
        /\ Get(e, "attempt", -1) = 0
        /\ Get(e, "error", NoError) = "dependency_not_met"
        /\ Invocations(r, i) = {}
        /\ Critical(StepAt(r, i)) =>
              /\ Returned(r)
              /\ \A k \in 1..Len(results[r]) : results[r][k].step_index <= i

\* a dependency names no step of the definition, or max_retries is negative
Malformed(wf) ==
    \E k \in 1..Len(wf.actions) :
        \/ \E d \in Get(wf.actions[k], "dependencies", NoDeps) :
              \A j \in 1..Len(wf.actions) : StepId(wf.actions[j], j - 1) # d
        \/ /\ "retry_policy" \in DOMAIN wf.actions[k]
           /\ "max_retries" \in DOMAIN wf.actions[k].retry_policy
           /\ wf.actions[k].retry_policy.max_retries < 0

\* C7: a malformed definition is rejected before the run is registered and
\* before any step is attempted: no StepResult, no entry in either registry.
C7_MalformedRejected ==
    \A r \in Runs : Malformed(workflow[r]) =>
        /\ ~InStep(r) /\ ~Returned(r)
        /\ results[r] = <<>>
        /\ workflow[r].id \notin DOMAIN active_workflows
        /\ workflow[r].id \notin DOMAIN workflow_results

C9_AttemptsWithinBounds ==
    \A r \in Runs : \A i \in StepIndexes(r) :
        LET N == MaxRetriesOf(StepAt(r, i))
            res == results[r]
            inv == Invocations(r, i)
            pending == IF pc[r] = "invoking" /\ step_i[r] = i THEN 1 ELSE 0
        IN  (N >= 0 /\ GateAllowed(r, i)) =>
            /\ Cardinality(inv) + pending >= 1
            /\ Cardinality(inv) + pending <= N + 1
            /\ \A k \in inv : log[r][k].ok =>
                  /\ \A j \in inv : j <= k
                  /\ ~(InStep(r) /\ step_i[r] = i)
            /\ \A k \in EntriesOf(res, i) : res[k].success =>
                  /\ res[k].attempt = Cardinality(inv)
                  /\ res[k].attempt >= 1 /\ res[k].attempt <= N + 1
                  /\ \E j \in inv : log[r][j].ok /\ log[r][j].attempt + 1 = res[k].attempt

C9_Witness ==
    \E i \in StepIndexes(1) : \E k \in EntriesOf(results[1], i) :
        /\ results[1][k].success
        /\ results[1][k].attempt = 3
        /\ MaxRetriesOf(StepAt(1, i)) = DefaultMaxRetries

RECURSIVE Power(_, _)
Power(b, e) == IF e = 0 THEN 1 ELSE b * Power(b, e - 1)

\* C10: with initial delay d and backoff multiplier m of the step's retry
\* policy (m = 2 when the policy names none), the wait after the i-th failed
\* attempt lasts d * m^(i-1); every failed attempt but the last is followed by
\* exactly one wait and then the next attempt; no wait follows the final attempt.
C10_BackoffDelays ==
    \A r \in Runs : \A k \in 1..Len(log[r]) :
        LET e == log[r][k]
            step == StepAt(r, e.step_index)
            d == RetryDelayOf(step)
            m == Get(step.retry_policy, "backoff_multiplier", BackoffFactor)
            last == e.attempt = MaxRetriesOf(step)
        IN  /\ (e.kind = "sleep") =>
                  /\ e.delay = d * Power(m, e.attempt)
                  /\ k > 1 /\ log[r][k - 1] = Invoke(e.step_index, e.attempt, FALSE)
                  /\ k < Len(log[r]) =>
                        /\ log[r][k + 1].kind = "invoke"
                        /\ log[r][k + 1].step_index = e.step_index
                        /\ log[r][k + 1].attempt = e.attempt + 1
            /\ (e.kind = "invoke" /\ ~e.ok /\ ~last) =>
                  /\ k < Len(log[r])
                  /\ log[r][k + 1].kind = "sleep"
            /\ (e.kind = "invoke" /\ (e.ok \/ last)) =>
                  (k < Len(log[r]) => log[r][k + 1].kind = "invoke")

\* C11: every action invocation is bounded by the step's declared timeout: no
\* successful step result comes from an action call that took longer than
\* the timeout its step declares.
C11_InvocationWithinTimeout ==
    \A r \in Runs : \A k \in 1..Len(results[r]) :
        LET step == StepAt(r, results[r][k].step_index) IN
        ("timeout" \in DOMAIN step /\ results[r][k].success)
        => results[r][k].execution_time <= TicksPerSecond * step.timeout

\* step i depends on a step declared after it
DependsOnLater(r, i) ==
    \E d \in Get(StepAt(r, i), "dependencies", NoDeps) :
        \E j \in StepIndexes(r) : j > i /\ StepId(StepAt(r, j), j) = d

\* C12: within one run the steps are processed in declared order, one at a
\* time: while an attempt of step j is in progress every step before j has its
\* result recorded and no step from j on has one; the step_index values of
\* the recorded results never decrease; a step that depends on a step
\* declared later is denied (a failed result, "dependencies not met") and its
\* action is never invoked.
C12_DeclaredOrder ==
    \A r \in Runs :
        /\ InStep(r) =>
              /\ \A i \in 0..(step_i[r] - 1) : EntriesOf(results[r], i) # {}
              /\ \A k \in 1..Len(results[r]) : results[r][k].step_index < step_i[r]
        /\ \A k \in 1..Len(log[r]) : \A j \in 1..k :
              log[r][j].step_index <= log[r][k].step_index
        /\ \A k \in 1..Len(results[r]) : \A j \in 1..k :
              results[r][j].step_index <= results[r][k].step_index
        /\ \A i \in StepIndexes(r) : DependsOnLater(r, i) =>
              /\ Invocations(r, i) = {}
              /\ ~(InStep(r) /\ step_i[r] = i)
              /\ \A k \in EntriesOf(results[r], i) :
                    ~results[r][k].success /\ results[r][k].error = DependencyError

\* a non-critical first step that depends on the second was denied, and the
\* second and third steps were run after it, in order
C12_Witness ==
    /\ Returned(1)
    /\ NSteps(1) >= 3
    /\ DependsOnLater(1, 0)
    /\ ~results[1][1].success
    /\ Len(results[1]) = NSteps(1)
    /\ results[1][2].success /\ results[1][2].step_index = 1
    /\ Invocations(1, 2) # {}

\* cancel_workflow found the run r registered, removed it and returned True
Cancelled(r) == cancelled[r] # <<>>

\* the entries of the run's history made after it was cancelled
SinceCancel(r) == {k \in 1..Len(log[r]) : k > cancelled[r][1]}

\* C13: once cancel_workflow(id) has returned true the cancelled run stops at
\* its next suspension point: at most the action call in flight ends, no
\* retry wait and no other action call is started, no step result is appended
\* beyond that call's, and no result is stored in the completed store.
C13_CancelledRunStops ==
    \A r \in Runs : Cancelled(r) =>
        /\ \A k \in SinceCancel(r) : log[r][k].kind = "invoke"
        /\ Cardinality(SinceCancel(r)) <= 1
        /\ Len(results[r]) <= cancelled[r][2] + 1
        /\ ~Returned(r)
        /\ workflow[r].id \notin DOMAIN workflow_results

\* the last call of get_workflow_status asked for id and nothing ran since
Replied(id) == status_reply.asked = id

\* C14: after cancel_workflow(id) removed a run from the active registry, no
\* status query for that id answers "running", whatever the cancelled run
\* has done in between.
C14_NoRunningAfterCancel ==
    \A r \in Runs : Cancelled(r) =>
        /\ Get(workflow_status(workflow[r].id), "status", "none") # "running"
        /\ Replied(workflow[r].id) =>
              Get(status_reply.value, "status", "none") # "running"

\* the cancelled run is still in a step and a status query was answered
C14_Witness ==
    /\ Cancelled(1)
    /\ InStep(1)
    /\ step_i[1] > 0
    /\ Replied(workflow[1].id)
    /\ status_reply.value = None

\* C15: get_workflow_status(id) answers the running payload (start_time,
\* current_step, total_steps of the registered run) when id is in the active
\* registry, also when id is in the completed store too; otherwise, when id is
\* in the completed store, the stored result's success and execution_time;
\* otherwise None.
C15_StatusPayload ==
    \A id \in WorkflowIds : Replied(id) =>
        LET reply == status_reply.value IN
        IF id \in DOMAIN active_workflows
        THEN /\ DOMAIN reply = {"workflow_id", "status", "start_time",
                                "current_step", "total_steps"}
             /\ reply.workflow_id = id
             /\ reply.status = "running"
             /\ reply.start_time = start_time[active_workflows[id]]
             /\ reply.current_step \in 0..reply.total_steps
             /\ reply.total_steps = NSteps(active_workflows[id])
        ELSE IF id \in DOMAIN workflow_results
        THEN /\ DOMAIN reply = {"workflow_id", "status", "success", "execution_time"}
             /\ reply.workflow_id = id
             /\ reply.status # "running"
             /\ reply.success = workflow_results[id].success
             /\ reply.execution_time = workflow_results[id].execution_time
        ELSE reply = None

\* a run is registered under an id the completed store holds a result for,
\* and a status query for the id was answered
C15_Witness ==
    \E id \in WorkflowIds :
        /\ id \in DOMAIN active_workflows
        /\ id \in DOMAIN workflow_results
        /\ Replied(id)
        /\ status_reply.value.status = "running"
        /\ status_reply.value.start_time > 0

\* C16: the status answered for a finished run names the terminal state the
\* run reached: "cancelled" when the run was cancelled, else "completed" when
\* its result has success = true and "failed" when it has success = false.
C16_StatusNamesTerminalState ==
    \A r \in Runs :
        (/\ Returned(r)
         /\ Replied(workflow[r].id)
         /\ workflow[r].id \notin DOMAIN active_workflows
         /\ status_reply.value # None)
        => status_reply.value.status =
              IF Cancelled(r) THEN "cancelled"
              ELSE IF returned[r].success THEN "completed"
              ELSE "failed"

\* C17: get_workflow_status is a pure read: a status query changes neither
\* the active registry nor the completed store, and a query that follows a
\* query for the same id, nothing else in between, gets the same answer.
C17_StatusIsPureRead ==
    [][status_reply'.nth > 0 =>
          /\ active_workflows' = active_workflows
          /\ workflow_results' = workflow_results
          /\ status_reply'.nth > 1 => status_reply'.value = status_reply.value]_vars

\* a second query in a row for a completed workflow was answered
C17_Witness ==
    /\ Returned(1)
    /\ Replied(workflow[1].id)
    /\ status_reply.nth > 1
    /\ status_reply.value # None
    /\ status_reply.value.status = "completed"

Raised(r) == pc[r] = "raised"

\* C18: execute_workflow registers the run's context under workflow_id
\* before the first step; when the call returns, workflow_id is not in the
\* active registry and the completed store maps it to the returned result;
\* when the call raises, workflow_id is not in the active registry and the
\* completed store is as it was.
C18_RegistrationLifecycle ==
    [][\A r \in Runs :
          /\ (pc[r] = "ready" /\ InStep(r)')
             => /\ workflow[r].id \in DOMAIN active_workflows'
                /\ active_workflows'[workflow[r].id] = r
          /\ (~Returned(r) /\ Returned(r)')
             => /\ workflow[r].id \notin DOMAIN active_workflows'
                /\ workflow[r].id \in DOMAIN workflow_results'
                /\ workflow_results'[workflow[r].id] = returned'[r]
          /\ (~Raised(r) /\ Raised(r)')
             => /\ workflow[r].id \notin DOMAIN active_workflows'
                /\ workflow_results' = workflow_results]_vars

\* the call raised after the run was registered and a step was run
C18_Witness ==
    /\ Raised(1)
    /\ returned[1].exception = AttributeError
    /\ Len(log[1]) > 0
    /\ active_workflows = EmptyDict
    /\ workflow_results = EmptyDict
    /\ ~Cancelled(1)

\* some call of execute_workflow under id is still in its loop
Executing(id) == \E r \in Runs : InStep(r) /\ workflow[r].id = id

\* C19: status and run state never disagree, overlapping calls under one
\* workflow_id included: while some run with an id is still executing a
\* status query for the id answers "running", never a terminal status or
\* not-found.
C19_StatusAgreesWithRuns ==
    \A id \in WorkflowIds : Executing(id) =>
        /\ Get(workflow_status(id), "status", "none") = "running"
        /\ Replied(id) => Get(status_reply.value, "status", "none") = "running"

\* every step is an action object with a retry policy, and the definition is
\* not malformed
WellFormed(wf) ==
    /\ ~Malformed(wf)
    /\ \A k \in 1..Len(wf.actions) :
          {"action_type", "parameters", "retry_policy"} \subseteq DOMAIN wf.actions[k]

\* C20: a failure of an action attempt never leaves execute_workflow as an
\* exception: for a well-formed definition the call raises only when the
\* executor is not initialized; a step whose attempts all failed has a failed
\* step result, and what the call returns is a WorkflowResult.
C20_ActionFailureNeverEscapes ==
    \A r \in Runs : WellFormed(workflow[r]) =>
        /\ Raised(r) => returned[r].exception = NotInitializedError
        /\ \A i \in StepIndexes(r) :
              (RetriesExhausted(r, i) /\ ~(InStep(r) /\ step_i[r] = i))
              => /\ FailedAt(results[r], i)
                 /\ Returned(r) \/ InStep(r)
        /\ Returned(r) =>
              /\ {"workflow_id", "success", "step_results", "success_rate"}
                    \subseteq DOMAIN returned[r]
              /\ returned[r].step_results = results[r]

\* a critical step failed on every attempt, the retry included, and the call
\* returned
C20_Witness ==
    /\ Returned(1)
    /\ WellFormed(workflow[1])
    /\ \E i \in StepIndexes(1) :
          /\ RetriesExhausted(1, i)
          /\ Critical(StepAt(1, i))
          /\ Cardinality(Invocations(1, i)) > 1
    /\ ~returned[1].success

\* step i has no retry policy of its own and the workflow declares a default
UnderDefaultPolicy(r, i) ==
    /\ "retry_policy" \notin DOMAIN StepAt(r, i)
    /\ "retry_policy" \in DOMAIN workflow[r]

\* C21: a step without a policy of its own, in a workflow whose default
\* policy has max_retries = N, is still invoked once the dependency gate has
\* let it pass, and is attempted at most N + 1 times.
C21_DefaultPolicyApplies ==
    \A r \in Runs : \A i \in StepIndexes(r) :
        (/\ UnderDefaultPolicy(r, i)
         /\ EntriesOf(results[r], i) # {}
         /\ ~GateDenied(r, i))
        => /\ Invocations(r, i) # {}
           /\ Cardinality(Invocations(r, i))
                 <= Get(workflow[r].retry_policy, "max_retries", DefaultMaxRetries) + 1

\* the answers the executor gave to the action calls of run r, in order
Outcomes(r) ==
    LET inv == SelectSeq(log[r], LAMBDA e : e.kind = "invoke")
    IN  [k \in 1..Len(inv) |-> inv[k].ok]

\* execute_workflow run on its own: from the loop position lr, in attempt att
\* of its step, with retries counted so far, fed the answers outs.  Yields
\* the results and retries it has when the answers are used up, and whether
\* the loop is over.
RECURSIVE Alone(_, _, _, _, _)
Alone(wf, lr, att, retries, outs) ==
    IF ~lr.suspended \/ outs = <<>>
    THEN [results |-> lr.results, retries |-> retries, done |-> ~lr.suspended]
    ELSE LET step == wf.actions[lr.i + 1] IN
         IF Head(outs)
         THEN Alone(wf, step_done(wf, lr.i, lr.results, SuccessResult(step, att)),
                    0, retries, Tail(outs))
         ELSE IF HasAttempt(att + 1, MaxRetriesOf(step))
         THEN Alone(wf, lr, att + 1, retries + 1, Tail(outs))
         ELSE Alone(wf, step_done(wf, lr.i, lr.results,
                                  FailedResult(MaxRetriesOf(step), ActionError)),
                    0, retries + 1, Tail(outs))

Started(r) == InStep(r) \/ Returned(r)

\* C22: runs with distinct workflow_ids executing concurrently do not
\* interfere: at every moment each run has the step results and retry count
\* it would have had alone with the same action outcomes, it is registered
\* under its id while it executes, and when it has returned its result
\* (step results, success, counts, retry count) is the lone run's and is what
\* the completed store holds under its id.
C22_DistinctRunsIndependent ==
    workflow[1].id # workflow[2].id =>
        \A r \in Runs : Started(r) =>
            LET alone == Alone(workflow[r], step_loop(workflow[r], 0, <<>>), 0, 0,
                               Outcomes(r))
                expected == workflow_result(workflow[r], alone.results,
                                            alone.retries, 0, 0)
            IN  /\ results[r] = alone.results
                /\ total_retries[r] = alone.retries
                /\ Returned(r) <=> alone.done
                /\ InStep(r) =>
                      /\ workflow[r].id \in DOMAIN active_workflows
                      /\ active_workflows[workflow[r].id] = r
                /\ Returned(r) =>
                      /\ workflow[r].id \notin DOMAIN active_workflows
                      /\ workflow_results[workflow[r].id] = returned[r]
                      /\ returned[r].step_results = expected.step_results
                      /\ returned[r].success = expected.success
                      /\ returned[r].success_rate = expected.success_rate
                      /\ returned[r].total_steps = expected.total_steps
                      /\ returned[r].successful_steps = expected.successful_steps
                      /\ returned[r].retry_attempts = expected.retry_attempts

\* two runs under distinct ids overlapped in time, each retried a step, and
\* both have returned
C22_Witness ==
    /\ workflow[1].id # workflow[2].id
    /\ Returned(1) /\ Returned(2)
    /\ returned[1].retry_attempts > 0 /\ returned[2].retry_attempts > 0
    /\ returned[1].start_time < returned[2].end_time
    /\ returned[2].start_time < returned[1].end_time
    /\ returned[1].success /\ ~returned[2].success

\* ids of the messages published so far
Published == {bus_log[k].id : k \in Events("publish")}

Acked(id) == \E k \in Events("ack") : bus_log[k].id = id

AtBroker(id) ==
    \/ \E k \in 1..Len(bus_queue) : bus_queue[k].id = id
    \/ \E k \in 1..Len(bus_unacked) : bus_unacked[k].id = id

\* C23: a delivered message is acknowledged only after its handler has
\* returned: every ack directly follows the return of the handler for that
\* message; a message whose handler raised is not acknowledged by that
\* delivery, and every published message that has not been acknowledged is
\* still at the broker, on the queue or as an unacknowledged delivery.
C23_AckOnlyAfterHandler ==
    /\ \A k \in Events("ack") :
          k > 1 /\ bus_log[k - 1] = [kind |-> "return", id |-> bus_log[k].id]
    /\ \A k \in Events("raise") :
          k < Len(bus_log) => bus_log[k + 1].kind # "ack"
    /\ \A id \in Published : ~Acked(id) => AtBroker(id)
    /\ \A id \in Published : ~(Acked(id) /\ AtBroker(id))

\* a message's handler raised, the message went back on the queue and was
\* delivered again, and it was acknowledged after the handler returned
C23_Witness ==
    \E id \in Published :
        /\ \E k \in Events("raise") : bus_log[k].id = id
        /\ Acked(id)
        /\ Cardinality({k \in Events("deliver") : bus_log[k].id = id}) > 1

\* C24: an exception raised by the handler does not end the consumer loop:
\* right after a handler raised, the consume call is still in its loop,
\* waiting for the next delivery.
C24_HandlerErrorKeepsLoop ==
    \A k \in Events("raise") : k = Len(bus_log) => consumer = "waiting"

\* the invocations of run r that repeat an attempt of their step: over the
\* steps run, the sum of (invocations - 1)
Retries(r) ==
    {k \in 1..Len(log[r]) : log[r][k].kind = "invoke" /\ log[r][k].attempt > 0}

\* C25: the retry_attempts of a returned WorkflowResult is the cumulative
\* number of retries of the run, the sum over the executed steps of
\* (action invocations - 1); a step that succeeds first time or fails once
\* with max_retries = 0 adds 0.
C25_RetryAttemptsCountRetries ==
    \A r \in Runs : Returned(r) =>
        returned[r].retry_attempts = Cardinality(Retries(r))

\* C26: while a run is in the active registry, the current_step answered by
\* get_workflow_status is the index of the step the run is processing
\* (counted from 0 or from 1), and never exceeds total_steps.
C26_CurrentStepTracksRun ==
    \A r \in Runs :
        (/\ InStep(r)
         /\ workflow[r].id \in DOMAIN active_workflows
         /\ active_workflows[workflow[r].id] = r
         /\ Replied(workflow[r].id))
        => /\ status_reply.value.current_step \in {step_i[r], step_i[r] + 1}
           /\ status_reply.value.current_step <= status_reply.value.total_steps

\* C27: execute_workflow on an executor that is not initialized (never, or
\* not since cleanup) is rejected with an error before any state is touched:
\* the call raises, both registries are as they were, and the run has
\* invoked no action and recorded no result.
C27_UninitializedRejected ==
    [][\A r \in Runs :
          (pc[r] = "ready" /\ pc'[r] # "ready" /\ ~is_initialized)
          => /\ Raised(r)'
             /\ returned'[r] = [exception |-> NotInitializedError]
             /\ active_workflows' = active_workflows
             /\ workflow_results' = workflow_results
             /\ log'[r] = <<>>
             /\ results'[r] = <<>>]_vars

\* a call made after cleanup, while an earlier run was still in flight, was
\* rejected
C27_Witness ==
    /\ ~is_initialized
    /\ Raised(2)
    /\ returned[2] = [exception |-> NotInitializedError]
    /\ InStep(1)
    /\ Cancelled(1)

\* C28: after cleanup() has returned, the active registry and the completed
\* store are empty and stay empty until initialize() is called again, runs
\* in flight at the time of the cleanup included.
C28_EmptyAfterCleanup ==
    ~is_initialized =>
        /\ active_workflows = EmptyDict
        /\ workflow_results = EmptyDict

\* C29: once emergency_stop has marked a RUNNING task CANCELLED, the task's
\* status in the registry stays CANCELLED, whatever the execute_task that
\* runs the task does afterwards.
C29_CancelledStaysCancelled ==
    \A t \in stopped : execution_registry[t].status = "CANCELLED"

\* C30: the number of active notifications never exceeds
\* max_concurrent_notifications (5); a notification shown while 5 are active
\* is appended to the queue and the active ones are left as they are; the
\* queue holds the notifications in the order they were shown in, the ones
\* that leave it are its oldest, and each of them is displayed as it leaves.
C30_CapacityAndFifo ==
    [][/\ Len(active_notifications) <= max_concurrent_notifications
       /\ Len(active_notifications') <= max_concurrent_notifications
       /\ (shown' = shown + 1 /\ Len(active_notifications) = max_concurrent_notifications) =>
              /\ Len(notification_queue') = Len(notification_queue) + 1
              /\ SubSeq(notification_queue', 1, Len(notification_queue)) = notification_queue
              /\ notification_queue'[Len(notification_queue')].seq = shown'
              /\ active_notifications' = active_notifications
       /\ \A j, k \in 1..Len(notification_queue') :
              j < k => notification_queue'[j].seq < notification_queue'[k].seq
       /\ \A k \in 1..Len(notification_queue') : dequeued' < notification_queue'[k].seq
       /\ shown' = shown =>
              \E n \in 0..Len(notification_queue) :
                 /\ notification_queue' = SubSeq(notification_queue, n + 1,
                                                 Len(notification_queue))
                 /\ displays' = displays + n
      ]_vars

\* five notifications were active, two more were queued, and the older of the
\* two has taken the slot a dismissal freed while the younger still waits
C30_Witness ==
    /\ Len(active_notifications) = max_concurrent_notifications
    /\ dequeued = max_concurrent_notifications + 1
    /\ \E a \in 1..Len(active_notifications) : active_notifications[a].seq = dequeued
    /\ notification_queue # <<>>
    /\ notification_queue[1].seq = dequeued + 1

====
